---- MODULE Spec2Model ----
(***************************************************************************)
(* phase9_runner.py: the Phase 9 market-feedback batch job.                *)
(*                                                                         *)
(* run_phase9 loads the application tracker, normalises it (load_tracker), *)
(* runs four aggregation passes over the normalised table and writes four  *)
(* JSON documents through save_json (temporary file, then os.replace).     *)
(*                                                                         *)
(* Numbers.  A decay weight exp(-LAMBDA * d) with LAMBDA = ln 2 / 60 is    *)
(* 2^(-d/60).  Elapsed days are drawn from the grid of multiples of        *)
(* HALF_LIFE_DAYS, on which every weight is a dyadic rational; a weight w  *)
(* is held as the integer w * ONE with ONE = 2^MaxHalvings.  A quotient    *)
(* a / b is held as the pair <<a, b>> and compared by cross-multiplying,   *)
(* so the arithmetic is exact (floating-point rounding is not modelled).   *)
(***************************************************************************)
EXTENDS Integers, Sequences, FiniteSets, TLC

VARIABLES
    pc,               \* position of the run inside run_phase9 / save_json
    tracker,          \* the input CSV: [readable, cols, rows]
    df,               \* the normalised DataFrame (sequence of rows)
    config_metrics,   \* result of compute_config_metrics
    cluster_metrics,  \* result of compute_cluster_metrics
    ats_patterns,     \* result of compute_ats_patterns
    market_metrics,   \* result of compute_market_metrics
    fs,               \* the output directory: path -> file content
    saving,           \* index (1..4) of the document save_json is writing
    series,           \* a column of elapsed-time values (decay-model driver)
    weights           \* compute_weight applied to a prefix of series

vars == <<pc, tracker, df, config_metrics, cluster_metrics, ats_patterns,
          market_metrics, fs, saving, series, weights>>

----------------------------------------------------------------------------
(* Bounds of the model *)

MaxRows == 4        \* rows of a table that varies the configs
MaxSideRows == 2    \* rows of the other tables of the aggregation specification
MaxRunRows == 2     \* rows of an input table in the full-run specification
MaxHalvings == 2    \* largest elapsed time is MaxHalvings half-lives
MaxSeries == 3      \* length of the column fed to the decay-model driver

----------------------------------------------------------------------------
(* Module-level constants of the program *)

HALF_LIFE_DAYS == 60

RECURSIVE Pow2(_)
Pow2(n) == IF n <= 0 THEN 1 ELSE 2 * Pow2(n - 1)

\* The weight 1.0 in the model's fixed-point scale.
ONE == Pow2(MaxHalvings)

\* A stage table that counts the stages from 1.
STAGE_SCORES_from_one ==
    [s \in {"Auto_Rejected", "Rejected_No_Response", "Recruiter_Screen",
            "Hiring_Manager", "Final_Round", "Offer"} |->
        CASE s = "Auto_Rejected" -> 1
          [] s = "Rejected_No_Response" -> 1
          [] s = "Recruiter_Screen" -> 2
          [] s = "Hiring_Manager" -> 3
          [] s = "Final_Round" -> 4
          [] s = "Offer" -> 5]

\* lines 54-61
STAGE_SCORES ==
    [s \in {"Auto_Rejected", "Rejected_No_Response", "Recruiter_Screen",
            "Hiring_Manager", "Final_Round", "Offer"} |->
        CASE s = "Auto_Rejected" -> 0
          [] s = "Rejected_No_Response" -> 0
          [] s = "Recruiter_Screen" -> 1
          [] s = "Hiring_Manager" -> 2
          [] s = "Final_Round" -> 3
          [] s = "Offer" -> 4]

FAILURE_MODES ==
    <<"ELIGIBILITY_GATE", "ATS_PACKAGING", "DOMAIN_MISMATCH", "TOOLING_GAP",
      "SENIORITY_MISMATCH", "WEAK_EVIDENCE", "EXTERNAL_NOISE", "UNKNOWN">>

FailureModeSet == {FAILURE_MODES[i] : i \in DOMAIN FAILURE_MODES}

----------------------------------------------------------------------------
(* Values *)

\* A missing cell of a text column (pandas reads an empty cell as NaN).
NaN == "NaN"

\* Elapsed-time values: Python None, float NaN, or a number of days.
NoneVal == [tag |-> "None", val |-> 0]
NanVal == [tag |-> "nan", val |-> 0]
Num(d) == [tag |-> "num", val |-> d]

\* The run date, as a day ordinal (datetime.date.today()).
Today == HALF_LIFE_DAYS * MaxHalvings

\* An applied_date cell: text that date.fromisoformat accepts (with the day
\* ordinal it denotes) or text it rejects (garbage, or the 'nan' of an empty
\* cell).
IsoDate(ordinal) == [iso |-> TRUE, ordinal |-> ordinal]
BadDate == [iso |-> FALSE, ordinal |-> 0]

\* A days_since_apply cell: missing, non-numeric text, or a numeral.
DaysMissing == [tag |-> "nan", val |-> 0]
DaysText == [tag |-> "text", val |-> 0]
DaysNumeral(d) == [tag |-> "num", val |-> d]

----------------------------------------------------------------------------
(* Decay model *)

\* A decay model with the wrong half-life (30 days).
compute_weight_half_life_30(days_since_apply) ==
    IF days_since_apply.tag \in {"None", "nan"} THEN 0
    ELSE IF days_since_apply.val < 0 THEN ONE
    ELSE ONE \div Pow2((2 * days_since_apply.val) \div HALF_LIFE_DAYS)

compute_weight(days_since_apply) ==
    IF days_since_apply.tag \in {"None", "nan"} THEN 0
    ELSE IF days_since_apply.val < 0 THEN ONE
    ELSE ONE \div Pow2(days_since_apply.val \div HALF_LIFE_DAYS)

compute_days_since(date_str) ==
    IF ~date_str.iso THEN NoneVal
    ELSE Num(Today - date_str.ordinal)

----------------------------------------------------------------------------
(* Record normalizer: load_tracker *)

HasCol(t, c) == c \in t.cols

\* df.get(col, default) followed by element-wise use: the cell of the row when
\* the column exists, the default otherwise.
GetCell(t, i, c, default) == IF HasCol(t, c) THEN t.rows[i][c] ELSE default

\* line 108: the elapsed time is computed from applied_date when the
\* days_since_apply column is absent or entirely null.
UseDates(t) ==
    \/ ~HasCol(t, "days_since_apply")
    \/ \A i \in DOMAIN t.rows : t.rows[i].days_since_apply.tag = "nan"

\* pd.read_csv raises on an unreadable file; df.get('applied_date') is None
\* when the column is absent and None.apply raises AttributeError.
load_tracker_raises(t) ==
    \/ ~t.readable
    \/ UseDates(t) /\ ~HasCol(t, "applied_date")

\* Series.apply infers the dtype of its result: numbers mixed with None
\* become float64 with NaN for None; a result holding nothing but None
\* stays an object column of None.
InferApply(col) ==
    IF \A i \in DOMAIN col : col[i].tag = "None" THEN col
    ELSE [i \in DOMAIN col |-> IF col[i].tag = "None" THEN NanVal ELSE col[i]]

\* pd.to_numeric(errors='coerce') on one cell.
to_numeric(cell) == IF cell.tag = "num" THEN Num(cell.val) ELSE NanVal

\* lines 108-113
days_since_apply_column(t) ==
    IF UseDates(t)
    THEN InferApply([i \in DOMAIN t.rows |->
                        compute_days_since(t.rows[i].applied_date)])
    ELSE [i \in DOMAIN t.rows |-> to_numeric(t.rows[i].days_since_apply)]

\* line 116: lambda x: compute_weight(x if x is not None else 0)
row_weight(x) == compute_weight(IF x.tag = "None" THEN Num(0) ELSE x)

\* str.strip() on the stage vocabulary: a stage name padded with blanks
\* strips to the name, any other text to itself.
Padded(s) == " " \o s \o " "
Strip(s) ==
    IF \E k \in DOMAIN STAGE_SCORES : s = Padded(k)
    THEN CHOOSE k \in DOMAIN STAGE_SCORES : s = Padded(k)
    ELSE s

\* line 120: STAGE_SCORES.get(str(s).strip(), 0)
stage_score_of(s) ==
    IF Strip(s) \in DOMAIN STAGE_SCORES THEN STAGE_SCORES[Strip(s)] ELSE 0

fillna(v, default) == IF v = NaN THEN default ELSE v

\* lines 123-126 without the coercion of values outside the vocabulary.
failure_mode_uncoerced(t, i) ==
    fillna(GetCell(t, i, "failure_mode", "UNKNOWN"), "UNKNOWN")

\* lines 123-126
failure_mode_of(t, i) ==
    LET filled == fillna(GetCell(t, i, "failure_mode", "UNKNOWN"), "UNKNOWN")
    IN  IF filled \in FailureModeSet THEN filled ELSE "UNKNOWN"

\* String concatenation of Series cells: NaN propagates.
Concat(a, b) == IF a = NaN \/ b = NaN THEN NaN ELSE a \o b

\* lines 129-131
config_id_of(t, i) ==
    fillna(IF HasCol(t, "config_id") THEN t.rows[i].config_id
           ELSE Concat(Concat(GetCell(t, i, "resume_variant", ""), "_"),
                       GetCell(t, i, "cover_variant", "")),
           "unknown")

\* lines 133-134: only an absent column is defaulted; cells are left as read.
cluster_of(t, i) == GetCell(t, i, "cluster", "UNKNOWN")

\* lines 137-139
ats_system_of(t, i) == fillna(GetCell(t, i, "ats_system", "UNKNOWN"), "UNKNOWN")

\* lines 97-141 (on a table for which nothing raises)
load_tracker(t) ==
    LET days == days_since_apply_column(t)
    IN  [i \in DOMAIN t.rows |->
            [days_since_apply |-> days[i],
             weight           |-> row_weight(days[i]),
             stage_score      |-> stage_score_of(
                                     GetCell(t, i, "current_stage", "Auto_Rejected")),
             failure_mode     |-> failure_mode_of(t, i),
             config_id        |-> config_id_of(t, i),
             cluster          |-> cluster_of(t, i),
             ats_system       |-> ats_system_of(t, i)]]

----------------------------------------------------------------------------
(* Exact arithmetic on quotients <<numerator, denominator>>, denominator > 0 *)

Leq(a, b) == a[1] * b[2] <= b[1] * a[2]
Geq(a, b) == Leq(b, a)
Zero == <<0, 1>>

RECURSIVE SumIdx(_, _)
SumIdx(f, S) ==
    IF S = {} THEN 0
    ELSE LET i == CHOOSE j \in S : TRUE IN f[i] + SumIdx(f, S \ {i})

RECURSIVE SetToSeq(_)
SetToSeq(S) ==
    IF S = {} THEN <<>>
    ELSE LET x == CHOOSE y \in S : TRUE IN <<x>> \o SetToSeq(S \ {x})

----------------------------------------------------------------------------
(* Aggregator: group-by and the weighted sums shared by the passes *)

\* df.groupby(col): the keys are the values observed in the column; rows
\* whose key is NaN are dropped (dropna=True is the pandas default).
groupby_keys(d, col) == {d[i][col] : i \in DOMAIN d} \ {NaN}
group(d, col, key) == {i \in DOMAIN d : d[i][col] = key}

\* group['weight'].sum()
total_weight(d, G) == SumIdx([i \in DOMAIN d |-> d[i].weight], G)

\* group[group['stage_score'] >= 1]['weight'].sum()
recruiter_weight(d, G) ==
    SumIdx([i \in DOMAIN d |-> d[i].weight], {i \in G : d[i].stage_score >= 1})

\* (group['stage_score'] * group['weight']).sum()
depth_sum(d, G) ==
    SumIdx([i \in DOMAIN d |-> d[i].stage_score * d[i].weight], G)

\* (group['days_since_apply'] * group['weight']).sum(): a product with an
\* unknown elapsed time is NaN and sum() skips it.
days_sum(d, G) ==
    SumIdx([i \in DOMAIN d |->
               IF d[i].days_since_apply.tag = "num"
               THEN d[i].days_since_apply.val * d[i].weight ELSE 0], G)

----------------------------------------------------------------------------
(* compute_config_metrics, with the baseline classifier *)

\* A config pass that keeps the groups without weight.
config_group_skipped_never(tw) == FALSE

\* line 152: if total_weight <= 0: continue
config_group_skipped(tw) == tw <= 0

RECURSIVE Insert(_, _)
Insert(x, s) ==
    IF s = <<>> THEN <<x>>
    ELSE IF Leq(x, Head(s)) THEN <<x>> \o s
    ELSE <<Head(s)>> \o Insert(x, Tail(s))

RECURSIVE Sort(_)
Sort(s) == IF s = <<>> THEN <<>> ELSE Insert(Head(s), Sort(Tail(s)))

\* np.median: the middle of the sorted values, or the mean of the two middle
\* ones.
np_median(rates) ==
    LET s == Sort(rates)
        n == Len(s)
        lo == s[n \div 2]
        hi == s[n \div 2 + 1]
    IN  IF n % 2 = 1 THEN s[(n + 1) \div 2]
        ELSE <<lo[1] * hi[2] + hi[1] * lo[2], 2 * lo[2] * hi[2]>>

\* A classifier that excludes the configs exactly at the median.
baseline_test_strict(rate, median_rate) == ~Leq(rate, median_rate)

\* line 173: metrics['recruiter_screen_rate'] >= median_rate
baseline_test(rate, median_rate) == Geq(rate, median_rate)

\* lines 150-165: the per-group loop
config_groups(d) ==
    LET kept == {k \in groupby_keys(d, "config_id") :
                    ~config_group_skipped(total_weight(d, group(d, "config_id", k)))}
    IN  [k \in kept |->
            LET G == group(d, "config_id", k)
                W == total_weight(d, G)
            IN  [recruiter_screen_rate   |-> <<recruiter_weight(d, G), W>>,
                 funnel_depth            |-> <<depth_sum(d, G), W>>,
                 average_rejection_speed |-> <<days_sum(d, G), W>>,
                 num_applications        |-> Cardinality(G),
                 is_baseline             |-> FALSE]]

\* lines 144-175
compute_config_metrics(d) ==
    IF DOMAIN d = {} THEN <<>>
    ELSE LET m == config_groups(d)
         IN  IF DOMAIN m = {} THEN m
             ELSE LET keys == SetToSeq(DOMAIN m)
                      rates == [j \in DOMAIN keys |-> m[keys[j]].recruiter_screen_rate]
                      median_rate == np_median(rates)
                  IN  [k \in DOMAIN m |->
                          [m[k] EXCEPT !.is_baseline =
                              baseline_test(m[k].recruiter_screen_rate, median_rate)]]

----------------------------------------------------------------------------
(* compute_cluster_metrics *)

\* line 185: if total_weight <= 0: continue
cluster_group_skipped(tw) == tw <= 0

\* lines 178-198
compute_cluster_metrics(d) ==
    IF DOMAIN d = {} THEN <<>>
    ELSE LET kept == {k \in groupby_keys(d, "cluster") :
                         ~cluster_group_skipped(total_weight(d, group(d, "cluster", k)))}
         IN  [k \in kept |->
                 LET G == group(d, "cluster", k)
                     W == total_weight(d, G)
                     rw == recruiter_weight(d, G)
                     sd == depth_sum(d, G)
                 IN  [recruiter_screen_rate |-> <<rw, W>>,
                      funnel_depth          |-> <<sd, W>>,
                      \* 0.6 * rw/W + 0.4 * (sd/W) / 4.0 = (6 rw + sd) / (10 W)
                      cluster_yield         |-> <<6 * rw + sd, 10 * W>>,
                      num_applications      |-> Cardinality(G)]]

----------------------------------------------------------------------------
(* compute_ats_patterns *)

\* lines 201-214
compute_ats_patterns(d) ==
    IF DOMAIN d = {} THEN <<>>
    ELSE [a \in groupby_keys(d, "ats_system") |->
             LET G == group(d, "ats_system", a)
                 W == total_weight(d, G)
             IN  [mode \in FailureModeSet |->
                     LET w_sum == total_weight(d, {i \in G : d[i].failure_mode = mode})
                     IN  IF W > 0 THEN <<w_sum, W>> ELSE Zero]]

----------------------------------------------------------------------------
(* compute_market_metrics *)

\* A market pass that divides whenever the total weight is not negative.
market_is_zeroed_negative_only(tw) == tw < 0

\* line 220: if total_weight <= 0
market_is_zeroed(tw) == tw <= 0

\* lines 217-237
compute_market_metrics(d) ==
    LET W == total_weight(d, DOMAIN d)
        rw == recruiter_weight(d, DOMAIN d)
        sd == depth_sum(d, DOMAIN d)
    IN  IF market_is_zeroed(W)
        THEN [overall_recruiter_screen_rate |-> Zero,
              overall_funnel_depth          |-> Zero,
              overall_cluster_yield         |-> Zero,
              last_updated                  |-> Today]
        ELSE [overall_recruiter_screen_rate |-> <<rw, W>>,
              overall_funnel_depth          |-> <<sd, W>>,
              overall_cluster_yield         |-> <<6 * rw + sd, 10 * W>>,
              last_updated                  |-> Today]

----------------------------------------------------------------------------
(* Emitter: save_json and the output directory *)

\* The four documents, in the order run_phase9 saves them (lines 260-263).
DocPaths ==
    <<"config_performance.json", "cluster_yield.json",
      "ats_outcome_patterns.json", "market_performance.json">>

\* A save_json that opens the final path itself.
tmp_path_in_place(path) == path

\* line 242: tmp_path = path + '.tmp'
tmp_path(path) == path \o ".tmp"

FinalPaths == {DocPaths[i] : i \in DOMAIN DocPaths}
Paths == FinalPaths \cup {p \o ".tmp" : p \in FinalPaths}

\* File contents.  doc tells which run serialised the document; state tells
\* how much of it is on disk.
Absent == [state |-> "absent", doc |-> "none"]
Previous == [state |-> "complete", doc |-> "previous"]
Truncated == [state |-> "empty", doc |-> "current"]
Partial == [state |-> "partial", doc |-> "current"]
Complete == [state |-> "complete", doc |-> "current"]

\* os.replace(src, dst): dst now names the file src named; replacing a path
\* by itself changes nothing.
os_replace(f, src, dst) ==
    IF src = dst THEN f ELSE [f EXCEPT ![dst] = f[src], ![src] = Absent]

----------------------------------------------------------------------------
(* run_phase9, step by step *)

\* line 251, load_tracker returns
LoadTracker ==
    /\ pc = "load"
    /\ ~load_tracker_raises(tracker)
    /\ df' = load_tracker(tracker)
    /\ pc' = "config"
    /\ UNCHANGED <<tracker, config_metrics, cluster_metrics, ats_patterns,
                   market_metrics, fs, saving, series, weights>>

\* line 251, load_tracker raises
LoadTrackerRaises ==
    /\ pc = "load"
    /\ load_tracker_raises(tracker)
    /\ pc' = "failed"
    /\ UNCHANGED <<tracker, df, config_metrics, cluster_metrics, ats_patterns,
                   market_metrics, fs, saving, series, weights>>

\* line 252
ComputeConfig ==
    /\ pc = "config"
    /\ config_metrics' = compute_config_metrics(df)
    /\ pc' = "cluster"
    /\ UNCHANGED <<tracker, df, cluster_metrics, ats_patterns, market_metrics,
                   fs, saving, series, weights>>

\* line 253
ComputeCluster ==
    /\ pc = "cluster"
    /\ cluster_metrics' = compute_cluster_metrics(df)
    /\ pc' = "ats"
    /\ UNCHANGED <<tracker, df, config_metrics, ats_patterns, market_metrics,
                   fs, saving, series, weights>>

\* line 254
ComputeAts ==
    /\ pc = "ats"
    /\ ats_patterns' = compute_ats_patterns(df)
    /\ pc' = "market"
    /\ UNCHANGED <<tracker, df, config_metrics, cluster_metrics, market_metrics,
                   fs, saving, series, weights>>

\* line 255
ComputeMarket ==
    /\ pc = "market"
    /\ market_metrics' = compute_market_metrics(df)
    /\ pc' = "makedirs"
    /\ UNCHANGED <<tracker, df, config_metrics, cluster_metrics, ats_patterns,
                   fs, saving, series, weights>>

\* line 258: os.makedirs(output_dir, exist_ok=True)
Makedirs ==
    /\ pc = "makedirs"
    /\ pc' = "open"
    /\ saving' = 1
    /\ UNCHANGED <<tracker, df, config_metrics, cluster_metrics, ats_patterns,
                   market_metrics, fs, series, weights>>

\* line 258 raises OSError (the path exists and is no directory, no permission)
MakedirsRaises ==
    /\ pc = "makedirs"
    /\ pc' = "failed"
    /\ UNCHANGED <<tracker, df, config_metrics, cluster_metrics, ats_patterns,
                   market_metrics, fs, saving, series, weights>>

\* line 243: open(tmp_path, 'w') creates or truncates the temporary file
SaveOpen ==
    /\ pc = "open"
    /\ fs' = [fs EXCEPT ![tmp_path(DocPaths[saving])] = Truncated]
    /\ pc' = "write"
    /\ UNCHANGED <<tracker, df, config_metrics, cluster_metrics, ats_patterns,
                   market_metrics, saving, series, weights>>

\* line 243 raises OSError
SaveOpenRaises ==
    /\ pc = "open"
    /\ pc' = "failed"
    /\ UNCHANGED <<tracker, df, config_metrics, cluster_metrics, ats_patterns,
                   market_metrics, fs, saving, series, weights>>

\* line 244: json.dump has written part of the document
SaveWriteSome ==
    /\ pc = "write"
    /\ fs[tmp_path(DocPaths[saving])].state = "empty"
    /\ fs' = [fs EXCEPT ![tmp_path(DocPaths[saving])] = Partial]
    /\ UNCHANGED <<pc, tracker, df, config_metrics, cluster_metrics, ats_patterns,
                   market_metrics, saving, series, weights>>

\* lines 243-244: json.dump has written the rest and the with block closes
\* the file
SaveWriteRest ==
    /\ pc = "write"
    /\ fs[tmp_path(DocPaths[saving])].state = "partial"
    /\ fs' = [fs EXCEPT ![tmp_path(DocPaths[saving])] = Complete]
    /\ pc' = "replace"
    /\ UNCHANGED <<tracker, df, config_metrics, cluster_metrics, ats_patterns,
                   market_metrics, saving, series, weights>>

\* line 244 raises (disk full, I/O error): what was written stays on disk
SaveWriteRaises ==
    /\ pc = "write"
    /\ pc' = "failed"
    /\ UNCHANGED <<tracker, df, config_metrics, cluster_metrics, ats_patterns,
                   market_metrics, fs, saving, series, weights>>

\* line 246: os.replace(tmp_path, path), then the next save_json or the end
SaveReplace ==
    /\ pc = "replace"
    /\ fs' = os_replace(fs, tmp_path(DocPaths[saving]), DocPaths[saving])
    /\ IF saving < Len(DocPaths)
       THEN pc' = "open" /\ saving' = saving + 1
       ELSE pc' = "done" /\ saving' = saving
    /\ UNCHANGED <<tracker, df, config_metrics, cluster_metrics, ats_patterns,
                   market_metrics, series, weights>>

\* line 246 raises OSError (the final path is a directory, no permission)
SaveReplaceRaises ==
    /\ pc = "replace"
    /\ pc' = "failed"
    /\ UNCHANGED <<tracker, df, config_metrics, cluster_metrics, ats_patterns,
                   market_metrics, fs, saving, series, weights>>

\* The decay model applied to the next element of a column (Series.apply).
ApplyWeight ==
    /\ pc = "weights"
    /\ Len(weights) < Len(series)
    /\ weights' = Append(weights, compute_weight(series[Len(weights) + 1]))
    /\ UNCHANGED <<pc, tracker, df, config_metrics, cluster_metrics, ats_patterns,
                   market_metrics, fs, saving, series>>

----------------------------------------------------------------------------
(* Inputs: the tables the specifications start from *)

AllCols ==
    {"config_id", "resume_variant", "cover_variant", "cluster", "ats_system",
     "applied_date", "days_since_apply", "current_stage", "failure_mode"}

\* A well-formed row; the families below vary some of its cells.
BaseRow ==
    [config_id        |-> "cfgA",
     resume_variant   |-> "r1",
     cover_variant    |-> "c1",
     cluster          |-> "backend",
     ats_system       |-> "greenhouse",
     applied_date     |-> IsoDate(Today),
     days_since_apply |-> DaysMissing,
     current_stage    |-> "Recruiter_Screen",
     failure_mode     |-> "UNKNOWN"]

\* Tables of at most n rows drawn from Rows, with the columns cols.
Tables(n, Rows, cols) ==
    {[readable |-> TRUE, cols |-> cols, rows |-> r] :
        r \in UNION {[1..k -> Rows] : k \in 0..n}}

\* (applied_date, current_stage) of a row: an unparseable date, an application
\* of today screened or rejected, an offer one half-life ago.
Outcomes ==
    {<<BadDate, "Auto_Rejected">>,
     <<IsoDate(Today), "Recruiter_Screen">>,
     <<IsoDate(Today), "Auto_Rejected">>,
     <<IsoDate(Today - HALF_LIFE_DAYS), "Offer">>}

\* Rows of the tables that vary the configs: an unparseable date, a screen
\* of today, a rejection one half-life ago.
ConfigRows ==
    {[BaseRow EXCEPT !.config_id = c, !.applied_date = o[1], !.current_stage = o[2]] :
        c \in {"cfgA", "cfgB", "cfgC"},
        o \in {<<BadDate, "Auto_Rejected">>,
               <<IsoDate(Today), "Recruiter_Screen">>,
               <<IsoDate(Today - HALF_LIFE_DAYS), "Auto_Rejected">>}}

ClusterRows ==
    {[BaseRow EXCEPT !.cluster = c, !.applied_date = o[1], !.current_stage = o[2]] :
        c \in {"backend", "data", NaN}, o \in Outcomes}

AtsRows ==
    {[BaseRow EXCEPT !.ats_system = a, !.failure_mode = f, !.applied_date = d] :
        a \in {"greenhouse", NaN},
        f \in {"ATS_PACKAGING", "NOT_A_REAL_MODE", NaN},
        d \in {BadDate, IsoDate(Today - HALF_LIFE_DAYS)}}

\* Rows of a table that supplies a days_since_apply column.
DaysRows ==
    {[BaseRow EXCEPT !.days_since_apply = n, !.applied_date = d] :
        n \in {DaysMissing, DaysText, DaysNumeral(0), DaysNumeral(HALF_LIFE_DAYS)},
        d \in {BadDate, IsoDate(Today + HALF_LIFE_DAYS)}}

\* Rows with missing or unusual text cells.
TextRows ==
    {[BaseRow EXCEPT !.resume_variant = r, !.config_id = r, !.current_stage = s] :
        r \in {"r1", NaN}, s \in {Padded("Offer"), "bogus", NaN}}

NoDays == AllCols \ {"days_since_apply"}

AggregateTables(m, n) ==
    Tables(m, ConfigRows, NoDays)
    \cup Tables(n, ClusterRows, NoDays)
    \cup Tables(n, AtsRows, NoDays)
    \cup Tables(n, DaysRows, AllCols)
    \cup Tables(n, DaysRows, AllCols \ {"applied_date"})
    \cup Tables(n, TextRows, NoDays)
    \cup Tables(n, TextRows, NoDays \ {"config_id"})
    \cup Tables(n, TextRows, NoDays \ {"config_id", "resume_variant", "cover_variant"})
    \cup Tables(n, TextRows, {"applied_date", "resume_variant", "cover_variant"})

\* Rows of the full-run specification: two configs, clusters and ATS systems
\* (one of them a missing cell), elapsed time known or not.
RunRows ==
    {[BaseRow EXCEPT !.config_id = c[1], !.cluster = c[2], !.ats_system = c[3],
                     !.days_since_apply = n] :
        c \in {<<"cfgA", "backend", "greenhouse">>, <<"cfgB", NaN, NaN>>},
        n \in {DaysText, DaysNumeral(0), DaysNumeral(HALF_LIFE_DAYS)}}

RunTables ==
    Tables(MaxRunRows, RunRows, AllCols)
    \cup {[readable |-> FALSE, cols |-> AllCols, rows |-> <<>>]}

\* The elapsed-time values the decay model is driven with.
WeightInputs ==
    {NoneVal, NanVal} \cup {Num(HALF_LIFE_DAYS * k) : k \in (-1)..MaxHalvings}

----------------------------------------------------------------------------
(* Specifications *)

\* Nothing computed, nothing written.
Idle ==
    /\ df = <<>>
    /\ config_metrics = <<>>
    /\ cluster_metrics = <<>>
    /\ ats_patterns = <<>>
    /\ market_metrics = <<>>
    /\ saving = 0
    /\ series = <<>>
    /\ weights = <<>>

\* A run of run_phase9: the output directory holds either no document or the
\* four documents of an earlier run.
Init ==
    /\ pc = "load"
    /\ tracker \in RunTables
    /\ fs \in {[p \in Paths |-> Absent],
               [p \in Paths |-> IF p \in FinalPaths THEN Previous ELSE Absent]}
    /\ Idle

Next ==
    \/ LoadTracker \/ LoadTrackerRaises
    \/ ComputeConfig \/ ComputeCluster \/ ComputeAts \/ ComputeMarket
    \/ Makedirs \/ MakedirsRaises
    \/ SaveOpen \/ SaveOpenRaises
    \/ SaveWriteSome \/ SaveWriteRest \/ SaveWriteRaises
    \/ SaveReplace \/ SaveReplaceRaises

Spec == Init /\ [][Next]_vars

\* The core alone: normalisation and the four aggregation passes.
InitAggregate ==
    /\ pc = "load"
    /\ tracker \in AggregateTables(MaxRows, MaxSideRows)
    /\ fs = [p \in Paths |-> Absent]
    /\ Idle

NextAggregate ==
    \/ LoadTracker \/ LoadTrackerRaises
    \/ ComputeConfig \/ ComputeCluster \/ ComputeAts \/ ComputeMarket

SpecAggregate == InitAggregate /\ [][NextAggregate]_vars

\* The decay model alone, applied down a column.
InitWeight ==
    /\ pc = "weights"
    /\ tracker = [readable |-> TRUE, cols |-> AllCols, rows |-> <<>>]
    /\ fs = [p \in Paths |-> Absent]
    /\ df = <<>>
    /\ config_metrics = <<>>
    /\ cluster_metrics = <<>>
    /\ ats_patterns = <<>>
    /\ market_metrics = <<>>
    /\ saving = 0
    /\ series \in UNION {[1..k -> WeightInputs] : k \in 1..MaxSeries}
    /\ weights = <<>>

NextWeight == ApplyWeight

SpecWeight == InitWeight /\ [][NextWeight]_vars

----------------------------------------------------------------------------
(* Properties *)

Computed == {"makedirs", "open", "write", "replace", "done"}
Loaded == {"config", "cluster", "ats", "market"} \cup Computed

Replaced == {p \in FinalPaths : fs[p].doc = "current"}

\* C1: when a run ends, either all four documents were replaced or none was.
C1_AllOrNothing ==
    pc \in {"done", "failed"} => Replaced \in {{}, FinalPaths}

RECURSIVE SumApplications(_, _)
SumApplications(m, S) ==
    IF S = {} THEN 0
    ELSE LET k == CHOOSE x \in S : TRUE
         IN  m[k].num_applications + SumApplications(m, S \ {k})

\* C2 as stated: num_applications summed over the config groups of the
\* output equals the number of input rows.
C2_RowCountAllRows ==
    pc \in (Loaded \ {"config"}) =>
        SumApplications(config_metrics, DOMAIN config_metrics) = Len(tracker.rows)

\* Rows whose config group has some weight: a group's total weight is > 0
\* exactly when one of its rows has a weight > 0.
RowsOfWeightedConfigs ==
    {i \in DOMAIN df :
        \E j \in DOMAIN df : df[j].config_id = df[i].config_id /\ df[j].weight > 0}

\* C2, amended: num_applications summed over the config groups of the output
\* equals the number of input rows whose config group has total weight > 0
\* (the rows of a group omitted for having no weight are not counted).
C2_RowCountWeightedGroups ==
    pc \in (Loaded \ {"config"}) =>
        /\ SumApplications(config_metrics, DOMAIN config_metrics)
              = Cardinality(RowsOfWeightedConfigs)
        /\ Cardinality(RowsOfWeightedConfigs) <= Len(tracker.rows)

C2_Witness ==
    /\ pc = "cluster"
    /\ DOMAIN config_metrics # {}
    /\ RowsOfWeightedConfigs # DOMAIN df

\* The elapsed time of input row i is unknown.
ElapsedUnknown(i) ==
    IF UseDates(tracker) THEN ~tracker.rows[i].applied_date.iso
    ELSE tracker.rows[i].days_since_apply.tag # "num"

\* C3: every row whose elapsed time is unknown gets weight 0.0, also in a
\* table where every row's elapsed time is unknown.
C3_UnknownElapsedWeighsZero ==
    pc \in Loaded =>
        \A i \in DOMAIN df : ElapsedUnknown(i) => df[i].weight = 0

\* C4: normalisation keeps every row, leaves no grouping key null, and puts
\* "UNKNOWN" where the cluster or ats_system cell is missing.
C4_NormalizedNonNull ==
    pc \in Loaded =>
        /\ Len(df) = Len(tracker.rows)
        /\ \A i \in DOMAIN df :
              /\ df[i].config_id # NaN
              /\ df[i].failure_mode # NaN
              /\ df[i].cluster # NaN
              /\ df[i].ats_system # NaN
              /\ (~HasCol(tracker, "cluster") \/ tracker.rows[i].cluster = NaN)
                    => df[i].cluster = "UNKNOWN"
              /\ (~HasCol(tracker, "ats_system") \/ tracker.rows[i].ats_system = NaN)
                    => df[i].ats_system = "UNKNOWN"

\* The median by counting: the j-th smallest rate is the rate with fewer
\* than j rates below it and at least j rates not above it.
RateOf(k) == config_metrics[k].recruiter_screen_rate
OrderStat(j) ==
    LET found == {k \in DOMAIN config_metrics :
                    /\ Cardinality({c \in DOMAIN config_metrics :
                                       ~Leq(RateOf(k), RateOf(c))}) < j
                    /\ Cardinality({c \in DOMAIN config_metrics :
                                       Leq(RateOf(c), RateOf(k))}) >= j}
    IN  RateOf(CHOOSE k \in found : TRUE)
AtLeastMedian(r) ==
    LET n == Cardinality(DOMAIN config_metrics)
        lo == OrderStat(n \div 2)
        hi == OrderStat(n \div 2 + 1)
    IN  IF n % 2 = 1 THEN Geq(r, OrderStat((n + 1) \div 2))
        ELSE 2 * r[1] * lo[2] * hi[2] >= (lo[1] * hi[2] + hi[1] * lo[2]) * r[2]

\* C5: a config is baseline exactly when its recruiter_screen_rate is at
\* least the median rate of all the configs of the output (inclusive).
C5_BaselineIffAtLeastMedian ==
    pc \in (Loaded \ {"config"}) =>
        \A k \in DOMAIN config_metrics :
            config_metrics[k].is_baseline <=> AtLeastMedian(RateOf(k))

\* Three configs, one below the median, one exactly at it, one above.
C5_Witness ==
    /\ pc = "cluster"
    /\ Cardinality(DOMAIN config_metrics) = 3
    /\ \E a, b, c \in DOMAIN config_metrics :
          /\ ~Leq(RateOf(b), RateOf(a))
          /\ ~Leq(RateOf(c), RateOf(b))
          /\ ~config_metrics[a].is_baseline
          /\ config_metrics[b].is_baseline
          /\ config_metrics[c].is_baseline

\* The ats_system value row i is grouped under.
ObservedAts(i) ==
    IF ~HasCol(tracker, "ats_system") \/ tracker.rows[i].ats_system = NaN
    THEN "UNKNOWN" ELSE tracker.rows[i].ats_system

AtsWeight(a) ==
    SumIdx([i \in DOMAIN df |-> df[i].weight],
           {i \in DOMAIN df : ObservedAts(i) = a})

ShareSum(a) ==
    SumIdx([j \in DOMAIN FAILURE_MODES |-> ats_patterns[a][FAILURE_MODES[j]][1]],
           DOMAIN FAILURE_MODES)

\* C6: one entry per observed ats_system, each with exactly the 8 failure
\* modes as keys; the shares of a group add up to 1 when the group has
\* weight and are all 0.0 when it has none.
C6_AtsShares ==
    (pc \in ({"market"} \cup Computed) /\ tracker.rows # <<>>) =>
        /\ DOMAIN ats_patterns = {ObservedAts(i) : i \in DOMAIN tracker.rows}
        /\ \A a \in DOMAIN ats_patterns :
              /\ DOMAIN ats_patterns[a] = FailureModeSet
              /\ Cardinality(DOMAIN ats_patterns[a]) = 8
              /\ AtsWeight(a) > 0 =>
                    /\ \A m \in FailureModeSet : ats_patterns[a][m][2] = AtsWeight(a)
                    /\ ShareSum(a) = AtsWeight(a)
              /\ AtsWeight(a) = 0 =>
                    \A m \in FailureModeSet : ats_patterns[a][m] = Zero

\* A group with weight holding a row of an unlisted failure mode, beside a
\* group without weight.
C6_Witness ==
    /\ pc = "market"
    /\ \E a, b \in DOMAIN ats_patterns : AtsWeight(a) > 0 /\ AtsWeight(b) = 0
    /\ \E i \in DOMAIN df :
          /\ tracker.rows[i].failure_mode = "NOT_A_REAL_MODE"
          /\ df[i].weight > 0

InUnit(q) == q[2] > 0 /\ 0 <= q[1] /\ q[1] <= q[2]
InDepth(q) == q[2] > 0 /\ 0 <= q[1] /\ q[1] <= 4 * q[2]

\* C7: in the config pass, the cluster pass and the market aggregate,
\* recruiter_screen_rate is in [0,1] and funnel_depth is in [0,4].
C7_RatesInRange ==
    /\ \A k \in DOMAIN config_metrics :
          /\ InUnit(config_metrics[k].recruiter_screen_rate)
          /\ InDepth(config_metrics[k].funnel_depth)
    /\ \A k \in DOMAIN cluster_metrics :
          /\ InUnit(cluster_metrics[k].recruiter_screen_rate)
          /\ InDepth(cluster_metrics[k].funnel_depth)
    /\ pc \in Computed =>
          /\ InUnit(market_metrics.overall_recruiter_screen_rate)
          /\ InDepth(market_metrics.overall_funnel_depth)

\* A cluster of offers only (depth 4) and a config with a rate strictly
\* between 0 and 1.
C7_Witness ==
    /\ pc = "makedirs"
    /\ \E a \in DOMAIN cluster_metrics, b \in DOMAIN config_metrics :
          /\ cluster_metrics[a].funnel_depth[1] = 4 * cluster_metrics[a].funnel_depth[2]
          /\ config_metrics[b].recruiter_screen_rate[1] > 0
          /\ config_metrics[b].recruiter_screen_rate[1]
                < config_metrics[b].recruiter_screen_rate[2]
    /\ market_metrics.overall_funnel_depth[1] > 0

C9_AtomicReplace ==
    /\ [](\A p \in FinalPaths : fs[p].state \in {"absent", "complete"})
    /\ [][\A p \in FinalPaths :
            fs'[p] # fs[p] =>
                /\ pc = "replace"
                /\ p = DocPaths[saving]
                /\ fs[p \o ".tmp"] = Complete
                /\ fs'[p] = Complete]_vars

\* The temporary file is half written while the final path still holds the
\* complete previous document.
C9_Witness ==
    /\ pc = "write"
    /\ fs[DocPaths[saving] \o ".tmp"] = Partial
    /\ fs[DocPaths[saving]] = Previous
    /\ saving > 1

\* C10: graceful degradation.  A finished run has written all four
\* documents; an empty table loads, gives empty config, cluster and ATS
\* maps and a market document of three rates 0.0; a table without weight
\* gives the same market document; config and cluster groups the output
\* holds have weight, and every observed ATS group is in the output.
C10_GracefulDegradation ==
    /\ pc = "done" => \A p \in FinalPaths : fs[p] = Complete
    /\ (tracker.readable /\ tracker.rows = <<>> /\ pc = "load") => ENABLED LoadTracker
    /\ (pc \in Computed /\ tracker.rows = <<>>) =>
          /\ DOMAIN config_metrics = {}
          /\ DOMAIN cluster_metrics = {}
          /\ DOMAIN ats_patterns = {}
    /\ (pc \in Computed /\ \A i \in DOMAIN df : df[i].weight <= 0) =>
          /\ market_metrics.overall_recruiter_screen_rate = Zero
          /\ market_metrics.overall_funnel_depth = Zero
          /\ market_metrics.overall_cluster_yield = Zero
    /\ pc \in Computed =>
          /\ \A k \in DOMAIN config_metrics :
                \E i \in DOMAIN df : df[i].config_id = k /\ df[i].weight > 0
          /\ \A k \in DOMAIN cluster_metrics :
                \E i \in DOMAIN df : df[i].cluster = k /\ df[i].weight > 0
          /\ \A i \in DOMAIN df : df[i].ats_system \in DOMAIN ats_patterns

\* The run on an empty table has finished.
C10_Witness ==
    /\ pc = "done"
    /\ tracker.rows = <<>>
    /\ \A p \in FinalPaths : fs[p] = Complete

====
